---- MODULE Spec2Model ----
(***************************************************************************)
(* A model of the flight-deal script: the Amadeus client (token cache,     *)
(* two-phase cheapest-offer search, offer normalisation), the batch price  *)
(* search with its notifications, the IATA backfill and the CLI entry.     *)
(*                                                                         *)
(* Conventions.  An Optional value is a sequence of length 0 (None) or 1.  *)
(* A raised exception is the name of its class ("" when nothing is         *)
(* raised).  Prices are integers (the code converts the API's decimal      *)
(* string with float()).  Every blocking network call is two steps: the    *)
(* request leaving the process, and its response (or transport error)      *)
(* coming back.                                                            *)
(***************************************************************************)
EXTENDS Integers, Sequences, FiniteSets, TLC

\* ------------------------------------------------------------------ bounds

\* Most offers in one API response.
MaxOffers == 2
\* Most destinations in one search batch.
MaxDests == 2
\* Most rows in one backfill batch.
MaxRows == 3
\* Most clock advances in one run of the token-cache driver.
MaxTicks == 4
\* Most customer addresses held by a notifier.
MaxEmails == 2
\* Most itineraries in an offer handed to from_amadeus_offer on its own.
MaxItins == 3

\* --------------------------------------------------------- program constants

\* flight_search.py:17
MAX_INDIRECT_OFFERS == 20
\* flight_search.py:40, the safety margin subtracted from expires_in
TOKEN_MARGIN == 10
\* flight_search.py:98, the stop ceiling of the unrestricted query
MAX_STOPS == 2
\* flight_search.py:89, the result cap of the non-stop query
NONSTOP_MAX_RESULTS == 1

\* ------------------------------------------------------------ raw offers

\* One end of a segment: airport code, city code ("" when the key is absent)
\* and timestamp <<date, time>>.
Stop(iata, city, day) == [iataCode |-> iata, cityCode |-> city, at |-> <<day, "10:00">>]

Seg(dep, arr) == [departure |-> dep, arrival |-> arr]

CDG == Stop("CDG", "PAR", "d1")
LHR == Stop("LHR", "LON", "d1")
FRA == Stop("FRA", "", "d1")
AMS == Stop("AMS", "AMS", "d2")
JFK == Stop("JFK", "NYC", "d2")
JFKback == Stop("CDG", "PAR", "d9")
\* An airport object with neither code.
NoCodes == Stop("", "", "d3")

\* Outbound legs with 0..4 segments, and an inbound leg.
Leg0 == [segments |-> <<>>]
Leg1 == [segments |-> <<Seg(CDG, JFK)>>]
Leg2 == [segments |-> <<Seg(CDG, LHR), Seg(LHR, JFK)>>]
Leg3 == [segments |-> <<Seg(CDG, FRA), Seg(FRA, LHR), Seg(LHR, JFK)>>]
Leg4 == [segments |-> <<Seg(CDG, FRA), Seg(FRA, AMS), Seg(AMS, LHR), Seg(LHR, JFK)>>]
LegBack == [segments |-> <<Seg(JFK, LHR), Seg(LHR, JFKback)>>]
\* A leg whose first stop has no code and whose last airport has no city code.
Leg5 == [segments |-> <<Seg(CDG, NoCodes), Seg(NoCodes, FRA)>>]

RawOffer(total, itins) ==
    [price |-> [total |-> total, currency |-> "EUR"], itineraries |-> itins]

\* The offers an API response is built from: a direct one, indirect ones with
\* 1, 2 and 3 stops (the 3-stop one the cheapest), one whose outbound leg has
\* no segment and one with no itinerary at all.
OfferPool ==
    { RawOffer(120, <<Leg1, LegBack>>),
      RawOffer(150, <<Leg2, LegBack>>),
      RawOffer(200, <<Leg3>>),
      RawOffer(100, <<Leg4, LegBack>>),
      RawOffer(110, <<Leg0, LegBack>>),
      RawOffer(130, <<>>) }

RECURSIVE SeqsUpTo(_, _)
SeqsUpTo(S, n) ==
    IF n = 0 THEN {<<>>}
    ELSE LET shorter == SeqsUpTo(S, n - 1)
         IN  shorter \cup {Append(s, x) : s \in {t \in shorter : Len(t) = n - 1}, x \in S}

\* What the offers endpoint may answer to one query: up to MaxOffers offers,
\* none of them twice.
Responses ==
    {r \in SeqsUpTo(OfferPool, MaxOffers) :
        \A a, b \in 1..Len(r) : a # b => r[a] # r[b]}

\* --------------------------------------------------------- normalisation

Last(s) == s[Len(s)]

Max2(a, b) == IF a >= b THEN a ELSE b

\* x or y, on strings.
OrElse(x, y) == IF x # "" THEN x ELSE y

\* The exception from_amadeus_offer raises on `offer` ("" when it returns).
FromAmadeusOfferRaises(offer) ==
    IF Len(offer.itineraries) = 0 THEN "IndexError"
    ELSE IF Len(offer.itineraries[1].segments) = 0 THEN "ValueError"
    ELSE ""

\* A normalisation that names the last stop instead of the first.
FromAmadeusOffer_ViaLastStop(o) ==
    LET segs == o.itineraries[1].segments
        stops == Max2(Len(segs) - 1, 0)
        code == OrElse(segs[Max2(stops, 1)].arrival.cityCode, segs[Max2(stops, 1)].arrival.iataCode)
        inbound == Last(o.itineraries).segments
        back == IF Len(inbound) > 0 THEN Last(inbound) ELSE Last(segs)
    IN  [ price |-> o.price.total,
          currency |-> o.price.currency,
          origin_city |-> OrElse(segs[1].departure.cityCode, segs[1].departure.iataCode),
          origin_airport |-> segs[1].departure.iataCode,
          destination_city |-> OrElse(Last(segs).arrival.cityCode, Last(segs).arrival.iataCode),
          destination_airport |-> Last(segs).arrival.iataCode,
          out_date |-> segs[1].departure.at[1],
          return_date |-> back.arrival.at[1],
          stops |-> stops,
          is_direct |-> (stops = 0),
          via_city |-> IF stops # 0 /\ code # "" THEN <<code>> ELSE <<>> ]

\* A normalisation that takes the first segment's arrival as the destination.
FromAmadeusOffer_FirstArrival(o) ==
    LET segs == o.itineraries[1].segments
        stops == Max2(Len(segs) - 1, 0)
        code == OrElse(segs[1].arrival.cityCode, segs[1].arrival.iataCode)
        inbound == Last(o.itineraries).segments
        back == IF Len(inbound) > 0 THEN Last(inbound) ELSE Last(segs)
    IN  [ price |-> o.price.total,
          currency |-> o.price.currency,
          origin_city |-> OrElse(segs[1].departure.cityCode, segs[1].departure.iataCode),
          origin_airport |-> segs[1].departure.iataCode,
          destination_city |-> code,
          destination_airport |-> segs[1].arrival.iataCode,
          out_date |-> segs[1].departure.at[1],
          return_date |-> back.arrival.at[1],
          stops |-> stops,
          is_direct |-> (stops = 0),
          via_city |-> IF stops # 0 /\ code # "" THEN <<code>> ELSE <<>> ]

\* The FlightData from_amadeus_offer builds, for an offer it does not raise on.
FromAmadeusOffer(offer) ==
    LET itineraries == offer.itineraries
        outbound == itineraries[1]
        inbound == IF Len(itineraries) > 1 THEN Last(itineraries) ELSE outbound
        outbound_segments == outbound.segments
        inbound_segments == inbound.segments
        outbound_first == outbound_segments[1]
        outbound_last == Last(outbound_segments)
        inbound_last == IF Len(inbound_segments) > 0 THEN Last(inbound_segments)
                        ELSE outbound_last
        stops == Max2(Len(outbound_segments) - 1, 0)
        first_stop_arrival == outbound_segments[1].arrival
        via_code == OrElse(first_stop_arrival.cityCode, first_stop_arrival.iataCode)
        via_city == IF stops # 0 /\ via_code # "" THEN <<via_code>> ELSE <<>>
        origin_departure == outbound_first.departure
        destination_arrival == outbound_last.arrival
    IN  [ price |-> offer.price.total,
          currency |-> offer.price.currency,
          origin_city |-> OrElse(origin_departure.cityCode, origin_departure.iataCode),
          origin_airport |-> origin_departure.iataCode,
          destination_city |-> OrElse(destination_arrival.cityCode, destination_arrival.iataCode),
          destination_airport |-> destination_arrival.iataCode,
          out_date |-> origin_departure.at[1],
          return_date |-> inbound_last.arrival.at[1],
          stops |-> stops,
          is_direct |-> (stops = 0),
          via_city |-> via_city ]

\* ------------------------------------------------------------- selection

\* Index of the first offer from_amadeus_offer raises on, 0 when there is none.
FirstRaising(offers) ==
    LET bad == {i \in 1..Len(offers) : FromAmadeusOfferRaises(offers[i]) # ""}
    IN  IF bad = {} THEN 0 ELSE CHOOSE i \in bad : \A j \in bad : i <= j

\* The loop of _fetch_best_offer keeps a flight unless a ceiling is given and
\* the flight's stops exceed it.
KeepsFlight(flight, max_stops) ==
    ~(Len(max_stops) = 1 /\ flight.stops > max_stops[1])

ValidFlights(offers, max_stops) ==
    LET flights == [i \in 1..Len(offers) |-> FromAmadeusOffer(offers[i])]
    IN  SelectSeq(flights, LAMBDA f : KeepsFlight(f, max_stops))

\* min(valid_flights, key=price): the first flight of least price.
MinByPrice(flights) ==
    LET best == CHOOSE i \in 1..Len(flights) :
                    /\ \A j \in 1..Len(flights) : flights[i].price <= flights[j].price
                    /\ \A j \in 1..(i - 1) : flights[j].price > flights[i].price
    IN  flights[best]

\* A selection that drops the offers it cannot normalise.
BestOfOffers_DropsMalformed(offers, max_stops) ==
    LET good == SelectSeq(offers, LAMBDA o : FromAmadeusOfferRaises(o) = "")
        valid == ValidFlights(good, max_stops)
    IN  IF Len(valid) = 0 THEN [exc |-> "", ret |-> <<>>]
        ELSE [exc |-> "", ret |-> <<MinByPrice(valid)>>]

\* What _fetch_best_offer does with the offers of a response: the exception it
\* raises ("" for none) and the Optional flight it returns.
BestOfOffers(offers, max_stops) ==
    IF Len(offers) = 0 THEN [exc |-> "", ret |-> <<>>]
    ELSE IF FirstRaising(offers) # 0
    THEN [exc |-> FromAmadeusOfferRaises(offers[FirstRaising(offers)]), ret |-> <<>>]
    ELSE LET valid == ValidFlights(offers, max_stops)
         IN  IF Len(valid) = 0 THEN [exc |-> "", ret |-> <<>>]
             ELSE [exc |-> "", ret |-> <<MinByPrice(valid)>>]

\* ------------------------------------------------------------------ state

VARIABLES
    \* the process
    pc,             \* where the running operation stands
    clock,          \* time.time()
    ticks,          \* clock advances so far
    raised,         \* the exception that ended the operation, "" for none
    \* FlightSearch
    token,          \* self._token, Optional
    tokenExpiresAt, \* self._token_expires_at
    hasOrigin,      \* whether self.origin_iata is set
    \* the API call in progress (or the last one)
    call,           \* "nonstop", "any" (offer searches) or "locations"
    tokReqs,        \* token requests sent during the call
    reqSent,        \* requests sent to the endpoint of the call itself
    atCall,         \* token, expiry and last fetch as the call began
    checkAt,        \* the clock when the call checked the cached token
    fetched,        \* when the held token was fetched, and its expires_in
    tokenFailed,    \* the call's token request failed
    callExc,        \* the exception the call raised to its caller, "" for none
    \* search_destinations
    dests,          \* the destinations, in order
    notifier,       \* Optional NotificationManager
    i,              \* the destination being handled
    resps,          \* the offer responses received for destination i, in order
    found,          \* Optional outcome of search_cheapest_flight for destination i
    searched,       \* destinations search_cheapest_flight was called for
    erred,          \* destinations whose handling raised a per-item error
    attempts,       \* channels send_deal_alert called for destination i, in order
    alertEnded,     \* send_deal_alert for destination i returned or raised
    alert,          \* Optional NotificationResult for destination i
    mailsSent,      \* messages handed to the mail relay for destination i
    body,           \* the text send_deal_alert composed for destination i, <<>> for none
    \* sync_missing_iata_codes
    rowsIn,         \* the rows as they were passed in
    rows,           \* the rows, in memory
    rowNo,          \* the row being handled
    updated,        \* the count the function returns
    processed,      \* rows the loop has taken
    lookups,        \* rows a location lookup was started for
    puts,           \* update requests sent: row, id and code
    persisted,      \* rows whose update request succeeded
    failed,         \* rows whose lookup or update failed
    cityCode,       \* the code being written for row rowNo
    \* from_amadeus_offer called on its own
    offerIn,        \* the offer passed in
    flightOut,      \* Optional FlightData returned
    \* main
    args,           \* the parsed command line
    env,            \* the environment load_settings reads
    settings,       \* Optional Settings
    netCalls,       \* requests main has sent, in order
    exitKind        \* how the run ended, "" while it runs

procVars == <<clock, ticks, hasOrigin>>
tokenVars == <<token, tokenExpiresAt, fetched>>
callVars == <<call, tokReqs, reqSent, atCall, checkAt, tokenFailed, callExc>>
alertVars == <<attempts, alertEnded, alert, mailsSent, body>>
searchVars == <<dests, notifier, i, resps, found, searched, erred, alertVars>>
backfillVars == <<rowsIn, rows, rowNo, updated, processed, lookups, puts, persisted,
                  failed, cityCode>>
mainVars == <<args, env, settings, netCalls, exitKind>>
offerVars == <<offerIn, flightOut>>
batchVars == <<searchVars, backfillVars, mainVars, offerVars>>
notSearch == <<procVars, backfillVars, mainVars, offerVars>>
notBackfill == <<procVars, searchVars, mainVars, offerVars>>
vars == <<pc, raised, procVars, tokenVars, callVars, batchVars>>

\* ------------------------------------------------------------ token cache

\* A Python-truthy Optional[str]: not None and not "".
Truthy(t) == Len(t) = 1 /\ t[1] # ""

\* The test of _ensure_token: the cached token is used as it is.
TokenValid(t, expiresAt, now) == Truthy(t) /\ now < expiresAt

\* A cache that forgets the safety margin.
ExpiryOf_NoMargin(now, expires_in) == now + expires_in

\* The expiry instant _ensure_token stores for a token received at `now`.
ExpiryOf(now, expires_in) == now + expires_in - TOKEN_MARGIN

\* What the token endpoint may answer: access_token and expires_in (0 is also
\* what the code takes when the key is absent).
TokenResponses ==
    { [access_token |-> "tokA", expires_in |-> 3600],
      [access_token |-> "tokB", expires_in |-> 0] }

\* How far the clock may advance in one step.
TickSteps == {1, 3588}

\* An API call begins: self._headers() is about to run _ensure_token.
BeginApiCall(kind) ==
    /\ call' = kind
    /\ tokReqs' = 0
    /\ reqSent' = 0
    /\ atCall' = [token |-> token, expiresAt |-> tokenExpiresAt,
                  fetchedAt |-> fetched.at, expires_in |-> fetched.expires_in]
    /\ checkAt' = clock
    /\ tokenFailed' = FALSE
    /\ callExc' = ""

\* What is recorded of the last call is dropped.
ForgetApiCall ==
    /\ call' = "locations"
    /\ tokReqs' = 0
    /\ reqSent' = 0
    /\ atCall' = [token |-> <<>>, expiresAt |-> 0, fetchedAt |-> 0, expires_in |-> 0]
    /\ checkAt' = 0
    /\ tokenFailed' = FALSE
    /\ callExc' = ""

\* _ensure_token finds the cached token valid; the call's own request is sent.
EnsureTokenHit ==
    /\ pc = "ensure"
    /\ TokenValid(token, tokenExpiresAt, clock)
    /\ pc' = "request"
    /\ checkAt' = clock
    /\ reqSent' = reqSent + 1
    /\ UNCHANGED <<raised, procVars, tokenVars, batchVars,
                   call, tokReqs, atCall, tokenFailed, callExc>>

\* _ensure_token finds no valid token; _get_new_token posts the token request.
EnsureTokenMiss ==
    /\ pc = "ensure"
    /\ ~TokenValid(token, tokenExpiresAt, clock)
    /\ pc' = "token"
    /\ checkAt' = clock
    /\ tokReqs' = tokReqs + 1
    /\ UNCHANGED <<raised, procVars, tokenVars, batchVars,
                   call, reqSent, atCall, tokenFailed, callExc>>

\* The token request succeeds: token and expiry are stored, and the call's own
\* request is sent with the new token.
TokenOk ==
    /\ pc = "token"
    /\ \E r \in TokenResponses :
          /\ token' = <<r.access_token>>
          /\ tokenExpiresAt' = ExpiryOf(clock, r.expires_in)
          /\ fetched' = [at |-> clock, expires_in |-> r.expires_in]
    /\ pc' = "request"
    /\ reqSent' = reqSent + 1
    /\ UNCHANGED <<raised, procVars, batchVars,
                   call, tokReqs, atCall, checkAt, tokenFailed, callExc>>

\* The token request fails (transport error or raise_for_status): the
\* RequestException leaves _get_new_token, _ensure_token, _headers and the
\* API call, before any assignment and before the call's own request.
TokenFailRaises ==
    /\ pc = "token"
    /\ tokenFailed' = TRUE
    /\ callExc' = "RequestException"
    /\ UNCHANGED <<tokenVars, call, tokReqs, reqSent, atCall, checkAt>>

\* Time passes.
Tick ==
    /\ ticks < MaxTicks
    /\ \E d \in TickSteps : clock' = clock + d
    /\ ticks' = ticks + 1
    /\ UNCHANGED <<pc, raised, hasOrigin, tokenVars, callVars, batchVars>>

\* ------------------------------------- the client under arbitrary API calls

ApiKinds == {"nonstop", "any", "locations"}

\* A caller starts an offer search (_request_offers) or a location lookup
\* (find_city_code).
ClientCall ==
    /\ pc = "idle"
    /\ \E kind \in ApiKinds : BeginApiCall(kind)
    /\ pc' = "ensure"
    /\ UNCHANGED <<raised, procVars, tokenVars, batchVars>>

\* A client that drops its cached token when the token request fails.
ClientTokenFail_Clears ==
    /\ pc = "token"
    /\ tokenFailed' = TRUE
    /\ callExc' = "RequestException"
    /\ token' = <<>>
    /\ tokenExpiresAt' = 0
    /\ pc' = "idle"
    /\ UNCHANGED <<raised, procVars, batchVars, fetched,
                   call, tokReqs, reqSent, atCall, checkAt>>

\* The caller sees the token failure.
ClientTokenFail ==
    /\ TokenFailRaises
    /\ pc' = "idle"
    /\ UNCHANGED <<raised, procVars, batchVars>>

\* The call's own request comes back, with a response or a transport error.
ClientResponse ==
    /\ pc = "request"
    /\ \E exc \in {"", "RequestException"} : callExc' = exc
    /\ pc' = "idle"
    /\ UNCHANGED <<raised, procVars, tokenVars, batchVars,
                   call, tokReqs, reqSent, atCall, checkAt, tokenFailed>>

\* A FlightSearch as __init__ leaves it, at time 0, with no call made yet.
InitFlightSearch ==
    /\ clock = 0
    /\ ticks = 0
    /\ raised = ""
    /\ token = <<>>
    /\ tokenExpiresAt = 0
    /\ fetched = [at |-> 0, expires_in |-> 0]
    /\ call = "locations"
    /\ tokReqs = 0
    /\ reqSent = 0
    /\ atCall = [token |-> <<>>, expiresAt |-> 0, fetchedAt |-> 0, expires_in |-> 0]
    /\ checkAt = 0
    /\ tokenFailed = FALSE
    /\ callExc = ""

\* No batch search is running.
NoSearch ==
    /\ dests = <<>>
    /\ notifier = <<>>
    /\ i = 1
    /\ resps = <<>>
    /\ found = <<>>
    /\ searched = {}
    /\ erred = {}
    /\ attempts = <<>>
    /\ alertEnded = FALSE
    /\ alert = <<>>
    /\ mailsSent = 0
    /\ body = <<>>

\* No backfill is running.
NoBackfill ==
    /\ rowsIn = <<>>
    /\ rows = <<>>
    /\ rowNo = 1
    /\ updated = 0
    /\ processed = {}
    /\ lookups = {}
    /\ puts = {}
    /\ persisted = {}
    /\ failed = {}
    /\ cityCode = ""

\* No command line run is in progress.
NoMain ==
    /\ args = [fetch |-> FALSE, push |-> "", sync_iata |-> FALSE, search |-> FALSE,
               notify |-> FALSE]
    /\ env = [smtp_port |-> "", prices_endpoint |-> TRUE, amadeus_api_key |-> TRUE,
              amadeus_api_secret |-> TRUE, twilio |-> TRUE]
    /\ settings = <<>>
    /\ netCalls = <<>>
    /\ exitKind = ""
    /\ offerIn = RawOffer(0, <<>>)
    /\ flightOut = <<>>

InitClient ==
    /\ pc = "idle"
    /\ NoMain
    /\ hasOrigin = TRUE
    /\ InitFlightSearch
    /\ NoSearch
    /\ NoBackfill

NextClient ==
    \/ ClientCall
    \/ EnsureTokenHit
    \/ EnsureTokenMiss
    \/ TokenOk
    \/ ClientTokenFail
    \/ ClientResponse
    \/ Tick

SpecClient == InitClient /\ [][NextClient]_vars

\* ------------------------------------------------- search_cheapest_flight

\* The nonStop and max parameters _fetch_best_offer sends for each phase.
QueryParams(kind) ==
    IF kind = "nonstop"
    THEN [nonStop |-> "true", max |-> NONSTOP_MAX_RESULTS]
    ELSE [nonStop |-> "false", max |-> MAX_INDIRECT_OFFERS]

\* A search that passes no stop ceiling to either phase.
MaxStopsOf_None(kind) == <<>>

\* The max_stops argument of each phase: none for the non-stop query.
MaxStopsOf(kind) == IF kind = "nonstop" THEN <<>> ELSE <<MAX_STOPS>>

\* A search that always goes on to the unrestricted query.
NeedsFallback_Always(kind, ret) == kind = "nonstop"

\* search_cheapest_flight goes on to the unrestricted query: the non-stop
\* phase gave no flight.
NeedsFallback(kind, ret) == kind = "nonstop" /\ ret = <<>>

\* ---------------------------------------------------- search_destinations

\* The addresses NotificationManager.__init__ keeps: the non-blank ones.
\* Addresses are numbered, 0 standing for a blank string.
NonBlank(emails) == SelectSeq(emails, LAMBDA e : e # 0)

\* A NotificationManager as __init__ builds it from the address list given.
Notifier(ready, emails) ==
    [email_ready |-> ready, customer_emails |-> NonBlank(emails)]

\* The notifiers a batch may be given: none, one without mail sender
\* credentials, or one with them and a list of a blank and 0..MaxEmails
\* customer addresses.
Notifiers ==
    {<<>>, <<Notifier(FALSE, <<>>)>>} \cup
    { <<Notifier(TRUE, [k \in 1..(n + 1) |-> k - 1])>> : n \in 0..MaxEmails }

\* The destinations a batch is built from.
DestPool ==
    { [iata_code |-> "NYC", lowest_price |-> 130],
      [iata_code |-> "LON", lowest_price |-> 160] }

\* The loop body for destination i has ended without an uncaught exception.
BodyEnds ==
    /\ pc' = "handled"
    /\ i' = i
    /\ raised' = raised

\* An exception no handler of search_destinations catches leaves it.
Propagates(exc) ==
    /\ pc' = "raised"
    /\ raised' = exc
    /\ i' = i

\* "{:.2f}" on the amounts of the model, and str() on its stop counts.
MoneyText ==
    { <<100, "100.00">>, <<110, "110.00">>, <<120, "120.00">>, <<130, "130.00">>,
      <<150, "150.00">>, <<160, "160.00">>, <<200, "200.00">> }
Money(n) == (CHOOSE p \in MoneyText : p[1] = n)[2]
CountText == {<<0, "0">>, <<1, "1">>, <<2, "2">>, <<3, "3">>, <<4, "4">>}
Count(n) == (CHOOSE p \in CountText : p[1] = n)[2]

\* The stop clause send_deal_alert appends for an indirect flight.
StopClause(flight) ==
    LET via_info == IF flight.via_city # <<>> THEN <<" via ", flight.via_city[1]>> ELSE <<>>
    IN  <<" ", Count(flight.stops), " escale(s)">> \o via_info \o <<".">>

\* A text that carries the stop clause whatever the stop count.
DealAlertBody_AlwaysClause(flight, threshold_price) ==
    << "Bon plan vol ", flight.origin_city, "-", flight.destination_city,
       " a ", Money(flight.price), " ", flight.currency,
       " (cible ", Money(threshold_price), "). ",
       "Aller: ", flight.out_date, ", retour: ", flight.return_date, "." >>
    \o StopClause(flight)

\* The text send_deal_alert composes, as the sequence of the pieces its
\* f-strings join (the pictograph and the accent of the literal text are left
\* out).
DealAlertBody(flight, threshold_price) ==
    << "Bon plan vol ", flight.origin_city, "-", flight.destination_city,
       " a ", Money(flight.price), " ", flight.currency,
       " (cible ", Money(threshold_price), "). ",
       "Aller: ", flight.out_date, ", retour: ", flight.return_date, "." >>
    \o (IF flight.stops # 0 THEN StopClause(flight) ELSE <<>>)

\* The notifier main builds: the Twilio values only, neither the loaded
\* addresses nor the mail sender credentials are passed on.
MainNotifier(customer_emails, mail_ready) == Notifier(FALSE, <<>>)

\* A test that takes every offer for a deal.
InTarget_Always(offer, destination) == TRUE

\* in_target of search_destinations.
InTarget(offer, destination) == offer.price <= destination.lowest_price

\* The loop head takes destination i and calls search_cheapest_flight, which
\* raises at once without an origin and otherwise starts the non-stop query.
SearchStart ==
    /\ pc = "loop"
    /\ i <= Len(dests)
    /\ searched' = searched \cup {i}
    /\ IF hasOrigin
       THEN /\ BeginApiCall("nonstop")
            /\ pc' = "ensure"
            /\ UNCHANGED <<raised, i>>
       ELSE /\ Propagates("ValueError")
            /\ UNCHANGED callVars
    /\ UNCHANGED <<notSearch, tokenVars, dests, notifier, resps, found, erred, alertVars>>

\* The loop moves to the next destination, and what was kept about the last
\* one is dropped.
SearchNext ==
    /\ pc = "handled"
    /\ pc' = "loop"
    /\ i' = i + 1
    /\ resps' = <<>>
    /\ found' = <<>>
    /\ attempts' = <<>>
    /\ alertEnded' = FALSE
    /\ alert' = <<>>
    /\ mailsSent' = 0
    /\ body' = <<>>
    /\ ForgetApiCall
    /\ UNCHANGED <<raised, notSearch, tokenVars, dests, notifier, searched, erred>>

\* The list is exhausted: search_destinations returns.
SearchFinish ==
    /\ pc = "loop"
    /\ i > Len(dests)
    /\ pc' = "done"
    /\ UNCHANGED <<raised, notSearch, tokenVars, callVars, batchVars>>

\* The token request of a query fails: the RequestException leaves
\* search_cheapest_flight and is caught by the loop.
SearchTokenFail ==
    /\ TokenFailRaises
    /\ found' = <<[exc |-> "RequestException", ret |-> <<>>]>>
    /\ erred' = erred \cup {i}
    /\ BodyEnds
    /\ UNCHANGED <<notSearch, dests, notifier, resps, searched, alertVars>>

\* The offers request fails (transport error or raise_for_status): caught by
\* the loop in the same way.
SearchRequestFail ==
    /\ pc = "request"
    /\ callExc' = "RequestException"
    /\ found' = <<[exc |-> "RequestException", ret |-> <<>>]>>
    /\ erred' = erred \cup {i}
    /\ BodyEnds
    /\ UNCHANGED <<notSearch, tokenVars, dests, notifier, resps, searched, alertVars,
                   call, tokReqs, reqSent, atCall, checkAt, tokenFailed>>

\* Lines 115-129 of main.py on what search_cheapest_flight returned: nothing
\* for no offer or an offer above the target or without a notifier, else
\* send_deal_alert, which composes the text and posts the SMS.
HandleOffer(ret) ==
    IF ret # <<>> /\ InTarget(ret[1], dests[i]) /\ notifier # <<>>
    THEN /\ pc' = "sms"
         /\ body' = DealAlertBody(ret[1], dests[i].lowest_price)
         /\ attempts' = <<"sms">>
         /\ UNCHANGED <<raised, i, alertEnded, alert, mailsSent>>
    ELSE /\ BodyEnds
         /\ UNCHANGED alertVars

\* The offers request comes back with a list of offers.  _fetch_best_offer
\* normalises and selects; a normalisation error is no RequestException and
\* leaves search_destinations; an empty non-stop phase starts the unrestricted
\* query; otherwise search_cheapest_flight returns and the loop body goes on.
SearchResponse ==
    /\ pc = "request"
    /\ \E offers \in Responses :
        LET best == BestOfOffers(offers, MaxStopsOf(call))
        IN  /\ resps' = Append(resps, offers)
            /\ IF best.exc # ""
               THEN /\ found' = <<best>>
                    /\ erred' = erred \cup {i}
                    /\ Propagates(best.exc)
                    /\ UNCHANGED <<callVars, alertVars>>
               ELSE IF NeedsFallback(call, best.ret)
               THEN /\ BeginApiCall("any")
                    /\ pc' = "ensure"
                    /\ UNCHANGED <<raised, i, found, erred, alertVars>>
               ELSE /\ found' = <<best>>
                    /\ HandleOffer(best.ret)
                    /\ UNCHANGED <<callVars, erred>>
    /\ UNCHANGED <<notSearch, tokenVars, dests, notifier, searched>>

\* send_sms fails: the RequestException leaves send_deal_alert before
\* send_email_alert is called, and is caught by the loop.
SmsFail ==
    /\ pc = "sms"
    /\ alertEnded' = TRUE
    /\ erred' = erred \cup {i}
    /\ BodyEnds
    /\ UNCHANGED <<notSearch, tokenVars, callVars, dests, notifier, resps, found,
                   searched, attempts, alert, mailsSent, body>>

\* send_sms returns the message id and send_email_alert is called: it returns
\* 0 without mail credentials or recipients, and otherwise opens the session.
SmsOk ==
    /\ pc = "sms"
    /\ attempts' = Append(attempts, "email")
    /\ IF notifier[1].email_ready /\ notifier[1].customer_emails # <<>>
       THEN /\ pc' = "email"
            /\ UNCHANGED <<raised, i, alertEnded, alert>>
       ELSE /\ alert' = <<[sms_sid |-> "SM1", emails_sent |-> 0]>>
            /\ alertEnded' = TRUE
            /\ BodyEnds
    /\ UNCHANGED <<notSearch, tokenVars, callVars, dests, notifier, resps, found,
                   searched, erred, mailsSent, body>>

\* The mail session sends one message to each recipient.
EmailOk ==
    /\ pc = "email"
    /\ mailsSent' = Len(notifier[1].customer_emails)
    /\ alert' = <<[sms_sid |-> "SM1", emails_sent |-> Len(notifier[1].customer_emails)]>>
    /\ alertEnded' = TRUE
    /\ BodyEnds
    /\ UNCHANGED <<notSearch, tokenVars, callVars, dests, notifier, resps, found,
                   searched, erred, attempts, body>>

\* The mail session fails at connect, STARTTLS, login or after k messages:
\* NotificationError, which the loop does not catch.
EmailFail ==
    /\ pc = "email"
    /\ \E k \in 0..(Len(notifier[1].customer_emails) - 1) : mailsSent' = k
    /\ alertEnded' = TRUE
    /\ erred' = erred \cup {i}
    /\ Propagates("NotificationError")
    /\ UNCHANGED <<notSearch, tokenVars, callVars, dests, notifier, resps, found,
                   searched, attempts, alert, body>>

\* search_destinations is called with a list of destinations, a searcher that
\* has made no call yet and an optional notifier.
InitSearch ==
    /\ NoMain
    /\ pc = "loop"
    /\ hasOrigin \in BOOLEAN
    /\ InitFlightSearch
    /\ dests \in SeqsUpTo(DestPool, MaxDests) \ {<<>>}
    /\ notifier \in Notifiers
    /\ i = 1
    /\ resps = <<>>
    /\ found = <<>>
    /\ searched = {}
    /\ erred = {}
    /\ attempts = <<>>
    /\ alertEnded = FALSE
    /\ alert = <<>>
    /\ mailsSent = 0
    /\ body = <<>>
    /\ NoBackfill

NextSearch ==
    \/ SearchStart
    \/ SearchNext
    \/ SearchFinish
    \/ EnsureTokenHit
    \/ EnsureTokenMiss
    \/ TokenOk
    \/ SearchTokenFail
    \/ SearchRequestFail
    \/ SearchResponse
    \/ SmsFail
    \/ SmsOk
    \/ EmailOk
    \/ EmailFail

SpecSearch == InitSearch /\ [][NextSearch]_vars

\* ------------------------------------------------ sync_missing_iata_codes

\* A row id as the sheet may deliver it: absent, a number or a string.
IdNone == [kind |-> "none", num |-> 0, str |-> ""]
IdInt(n) == [kind |-> "int", num |-> n, str |-> ""]
IdStr(t) == [kind |-> "str", num |-> 0, str |-> t]

\* not row_id
Falsy(id) ==
    \/ id.kind = "none"
    \/ id.kind = "int" /\ id.num = 0
    \/ id.kind = "str" /\ id.str = ""

\* The strings int() parses, with their values.
Numerals == {<<"7", 7>>}

\* The exception int(row_id) raises, "" when it returns.
IntRaises(id) ==
    IF id.kind = "int" THEN ""
    ELSE IF id.kind = "none" THEN "TypeError"
    ELSE IF \E p \in Numerals : p[1] = id.str THEN "" ELSE "ValueError"

\* int(row_id), when it returns.
IntOf(id) ==
    IF id.kind = "int" THEN id.num
    ELSE (CHOOSE p \in Numerals : p[1] = id.str)[2]

\* str.strip() and str.upper() on the strings of the model.
Strip(t) == IF t = " " THEN "" ELSE IF t = " BER " THEN "BER" ELSE t
Upper(t) == IF t = "par" THEN "PAR" ELSE t

Row(code, city, id) == [iataCode |-> code, city |-> city, id |-> id]

\* The rows a sheet is built from: one lacking its code, one with a code, and
\* rows lacking a code with an absent, zero, empty or non-numeric id or a
\* blank city.
RowPool ==
    { Row("", "Paris", IdInt(2)),
      Row(" BER ", "Berlin", IdInt(3)),
      Row("", "Rome", IdNone),
      Row("", "Rome", IdInt(0)),
      Row(" ", "Rome", IdStr("")),
      Row("", " ", IdInt(5)),
      Row("", "Oslo", IdStr("abc")) }

\* What find_city_code may return: None (no data, or no iataCode in it) or
\* the code as the API spells it.
LookupResults == {<<>>, <<"par">>}

\* The row is passed over: it has a code, or lacks a city or an id.
SkipsRow(row) ==
    \/ Strip(row.iataCode) # ""
    \/ Strip(row.city) = ""
    \/ Falsy(row.id)

\* The loop goes on with the next row.
NextRow ==
    /\ pc' = "rows"
    /\ rowNo' = rowNo + 1
    /\ raised' = raised

\* The loop takes a row that needs nothing, or that cannot be looked up.
BackfillSkip ==
    /\ pc = "rows"
    /\ rowNo <= Len(rows)
    /\ SkipsRow(rows[rowNo])
    /\ processed' = processed \cup {rowNo}
    /\ NextRow
    /\ UNCHANGED <<notBackfill, tokenVars, callVars, rowsIn, rows, updated, lookups,
                   puts, persisted, failed, cityCode>>

\* The loop takes a row lacking its code and calls find_city_code.
BackfillLookup ==
    /\ pc = "rows"
    /\ rowNo <= Len(rows)
    /\ ~SkipsRow(rows[rowNo])
    /\ processed' = processed \cup {rowNo}
    /\ lookups' = lookups \cup {rowNo}
    /\ BeginApiCall("locations")
    /\ pc' = "ensure"
    /\ UNCHANGED <<raised, notBackfill, tokenVars, rowsIn, rows, rowNo, updated,
                   puts, persisted, failed, cityCode>>

\* The rows are exhausted: the count is returned.
BackfillFinish ==
    /\ pc = "rows"
    /\ rowNo > Len(rows)
    /\ pc' = "done"
    /\ UNCHANGED <<raised, notBackfill, tokenVars, callVars, backfillVars>>

\* The token request of the lookup fails: caught, next row.
BackfillTokenFail ==
    /\ TokenFailRaises
    /\ failed' = failed \cup {rowNo}
    /\ NextRow
    /\ UNCHANGED <<notBackfill, rowsIn, rows, updated, processed, lookups, puts,
                   persisted, cityCode>>

\* A backfill that lets a failed lookup end the loop.
BackfillLookupFail_Aborts ==
    /\ pc = "request"
    /\ callExc' = "RequestException"
    /\ failed' = failed \cup {rowNo}
    /\ pc' = "raised"
    /\ raised' = "RequestException"
    /\ UNCHANGED <<notBackfill, tokenVars, rowsIn, rows, rowNo, updated, processed,
                   lookups, puts, persisted, cityCode,
                   call, tokReqs, reqSent, atCall, checkAt, tokenFailed>>

\* The lookup request fails: caught, next row.
BackfillLookupFail ==
    /\ pc = "request"
    /\ callExc' = "RequestException"
    /\ failed' = failed \cup {rowNo}
    /\ NextRow
    /\ UNCHANGED <<notBackfill, tokenVars, rowsIn, rows, updated, processed, lookups,
                   puts, persisted, cityCode,
                   call, tokReqs, reqSent, atCall, checkAt, tokenFailed>>

\* The lookup returns.  Without a code the loop goes on; with one, int(row_id)
\* is evaluated, whose ValueError nothing catches, and the update request is
\* sent.
BackfillLookupResponse ==
    /\ pc = "request"
    /\ \E res \in LookupResults :
          IF res = <<>>
          THEN /\ NextRow
               /\ UNCHANGED <<puts, cityCode>>
          ELSE IF IntRaises(rows[rowNo].id) # ""
          THEN /\ pc' = "raised"
               /\ raised' = IntRaises(rows[rowNo].id)
               /\ cityCode' = Upper(res[1])
               /\ UNCHANGED <<rowNo, puts>>
          ELSE /\ pc' = "update"
               /\ cityCode' = Upper(res[1])
               /\ puts' = puts \cup {[row |-> rowNo, id |-> IntOf(rows[rowNo].id),
                                      iataCode |-> Upper(res[1])]}
               /\ UNCHANGED <<raised, rowNo>>
    /\ UNCHANGED <<notBackfill, tokenVars, callVars, rowsIn, rows, updated, processed,
                   lookups, persisted, failed>>

\* The update request succeeds: the row in memory gets the code and the count
\* goes up.
BackfillUpdateOk ==
    /\ pc = "update"
    /\ rows' = [rows EXCEPT ![rowNo].iataCode = cityCode]
    /\ updated' = updated + 1
    /\ persisted' = persisted \cup {rowNo}
    /\ NextRow
    /\ UNCHANGED <<notBackfill, tokenVars, callVars, rowsIn, processed, lookups, puts,
                   failed, cityCode>>

\* The update request fails: caught, next row.
BackfillUpdateFail ==
    /\ pc = "update"
    /\ failed' = failed \cup {rowNo}
    /\ NextRow
    /\ UNCHANGED <<notBackfill, tokenVars, callVars, rowsIn, rows, updated, processed,
                   lookups, puts, persisted, cityCode>>

\* sync_missing_iata_codes is called with the rows of the sheet and a searcher
\* that has made no call yet.
InitBackfill ==
    /\ pc = "rows"
    /\ NoMain
    /\ hasOrigin = TRUE
    /\ InitFlightSearch
    /\ NoSearch
    /\ rowsIn \in SeqsUpTo(RowPool, MaxRows)
    /\ rows = rowsIn
    /\ rowNo = 1
    /\ updated = 0
    /\ processed = {}
    /\ lookups = {}
    /\ puts = {}
    /\ persisted = {}
    /\ failed = {}
    /\ cityCode = ""

NextBackfill ==
    \/ BackfillSkip
    \/ BackfillLookup
    \/ BackfillFinish
    \/ EnsureTokenHit
    \/ EnsureTokenMiss
    \/ TokenOk
    \/ BackfillTokenFail
    \/ BackfillLookupFail
    \/ BackfillLookupResponse
    \/ BackfillUpdateOk
    \/ BackfillUpdateFail

SpecBackfill == InitBackfill /\ [][NextBackfill]_vars

\* ------------------------------------------------------------------- main
\*
\* The command line entry point.  The environment gives each value as set or
\* unset (the four Twilio values as one: all set, or one missing); SMTP_PORT
\* keeps its text, since load_settings parses it.

\* The fields of the Settings dataclass.
SettingsFields ==
    { "sheety_prices_endpoint", "sheety_users_endpoint", "sheety_token",
      "sheety_data_key", "sheety_users_key", "sheety_username", "sheety_password",
      "amadeus_api_key", "amadeus_api_secret", "default_origin_iata",
      "default_departure_date", "default_return_date", "twilio_sid",
      "twilio_auth_token", "twilio_from", "twilio_to", "email_sender",
      "email_password", "smtp_host", "smtp_port" }

\* The command lines and environments a run may start from.
ArgSets ==
    [fetch : BOOLEAN, push : {"", "json", "bad"}, sync_iata : BOOLEAN,
     search : BOOLEAN, notify : BOOLEAN]
Environments ==
    [smtp_port : {"", "2525", "abc"}, prices_endpoint : BOOLEAN,
     amadeus_api_key : BOOLEAN, amadeus_api_secret : BOOLEAN, twilio : BOOLEAN]

\* load_settings: SMTP_PORT must parse as an integer, and validate() wants the
\* prices endpoint.
LoadSettingsRaises(e) ==
    IF e.smtp_port = "abc" THEN "EnvironmentError"
    ELSE IF ~e.prices_endpoint THEN "EnvironmentError"
    ELSE ""

LoadSettings(e) ==
    [sheety_prices_endpoint |-> e.prices_endpoint,
     amadeus_api_key |-> e.amadeus_api_key,
     amadeus_api_secret |-> e.amadeus_api_secret,
     twilio |-> e.twilio,
     smtp_port |-> IF e.smtp_port = "" THEN 587 ELSE 2525]

\* parser.error: the message is reported and the process exits.
ParserError ==
    /\ pc' = "exit"
    /\ exitKind' = "config_error"
    /\ raised' = "SystemExit"

\* main, up to load_settings: an EnvironmentError becomes parser.error.
MainLoadSettings ==
    /\ pc = "main"
    /\ IF LoadSettingsRaises(env) # ""
          THEN ParserError /\ UNCHANGED settings
          ELSE /\ settings' = <<LoadSettings(env)>>
               /\ pc' = "build"
               /\ UNCHANGED <<raised, exitKind>>
    /\ UNCHANGED <<procVars, tokenVars, callVars, searchVars, backfillVars, offerVars,
                   args, env, netCalls>>

\* build_data_manager reads settings.sheety_endpoint, which is not a field of
\* Settings: the attribute access raises and nothing in main catches it.
MainBuildManager ==
    /\ pc = "build"
    /\ IF "sheety_endpoint" \notin SettingsFields
          THEN /\ pc' = "raised"
               /\ raised' = "AttributeError"
               /\ exitKind' = "crash"
          ELSE /\ pc' = "get_data"
               /\ UNCHANGED <<raised, exitKind>>
    /\ UNCHANGED <<procVars, tokenVars, callVars, searchVars, backfillVars, offerVars,
                   args, env, settings, netCalls>>

InitMain ==
    /\ pc = "main"
    /\ hasOrigin = TRUE
    /\ InitFlightSearch
    /\ NoSearch
    /\ NoBackfill
    /\ args \in ArgSets
    /\ env \in Environments
    /\ settings = <<>>
    /\ netCalls = <<>>
    /\ exitKind = ""
    /\ offerIn = RawOffer(0, <<>>)
    /\ flightOut = <<>>

NextMain ==
    \/ MainLoadSettings
    \/ MainBuildManager

SpecMain == InitMain /\ [][NextMain]_vars

\* ------------------------------------------------- from_amadeus_offer alone
\*
\* FlightData.from_amadeus_offer applied to one offer: any sequence of up to
\* MaxItins itineraries over the legs above.

LegPool == {Leg0, Leg1, Leg2, Leg3, Leg4, Leg5, LegBack}

OfferInputs == {RawOffer(100, itins) : itins \in SeqsUpTo(LegPool, MaxItins)}

\* The call: it returns the FlightData or raises.
Normalise ==
    /\ pc = "offer"
    /\ IF FromAmadeusOfferRaises(offerIn) # ""
          THEN /\ pc' = "raised"
               /\ raised' = FromAmadeusOfferRaises(offerIn)
               /\ flightOut' = <<>>
          ELSE /\ pc' = "normalised"
               /\ raised' = ""
               /\ flightOut' = <<FromAmadeusOffer(offerIn)>>
    /\ UNCHANGED <<procVars, tokenVars, callVars, searchVars, backfillVars, mainVars, offerIn>>

InitOffer ==
    /\ pc = "offer"
    /\ hasOrigin = TRUE
    /\ InitFlightSearch
    /\ NoSearch
    /\ NoBackfill
    /\ args = [fetch |-> FALSE, push |-> "", sync_iata |-> FALSE, search |-> FALSE,
               notify |-> FALSE]
    /\ env = [smtp_port |-> "", prices_endpoint |-> TRUE, amadeus_api_key |-> TRUE,
              amadeus_api_secret |-> TRUE, twilio |-> TRUE]
    /\ settings = <<>>
    /\ netCalls = <<>>
    /\ exitKind = ""
    /\ offerIn \in OfferInputs
    /\ flightOut = <<>>

NextOffer == Normalise

SpecOffer == InitOffer /\ [][NextOffer]_vars

\* ----------------------------------------------------------------- claims

\* The token held as the call began was past its window at the call's check.
PastWindow == checkAt >= atCall.fetchedAt + atCall.expires_in - 10

\* C6: before every API call (offer search or location lookup) a token is
\* requested if and only if no token is held or the time of the call is at or
\* past fetch time + expires_in - 10, and then exactly once; a token fetched at
\* t with expires_in = 3600 is reused by every call before t + 3590 and
\* refetched by a call at or after it.
C6_TokenCacheWindow ==
    pc \in {"token", "request"} =>
        /\ tokReqs = (IF ~Truthy(atCall.token) \/ PastWindow THEN 1 ELSE 0)
        /\ (Truthy(atCall.token) /\ atCall.expires_in = 3600) =>
              (tokReqs = 0 <=> checkAt < atCall.fetchedAt + 3590)

\* A call made 3590 s or more after a 3600 s token was fetched has requested
\* one new token before its own request.
C6_Witness ==
    /\ pc = "request"
    /\ Truthy(atCall.token)
    /\ atCall.expires_in = 3600
    /\ checkAt = atCall.fetchedAt + 3590
    /\ tokReqs = 1

\* C7: when the token request of an API call fails, the caller gets a
\* transport error, one token request was made for the call, the call's own
\* request was not sent, and token and expiry are as they were before the call.
C7_TokenFetchFailure ==
    tokenFailed =>
        /\ callExc = "RequestException"
        /\ tokReqs = 1
        /\ reqSent = 0
        /\ token = atCall.token
        /\ tokenExpiresAt = atCall.expiresAt

\* The token request failed for a call that began with an expired token held.
C7_Witness ==
    /\ tokenFailed
    /\ pc = "idle"
    /\ Truthy(atCall.token)
    /\ atCall.expires_in = 3600

\* The offer has an outbound itinerary with at least one segment.
WellFormed(o) == Len(o.itineraries) >= 1 /\ Len(o.itineraries[1].segments) >= 1

\* The offer has an outbound itinerary, and it has no segment.
ZeroSegments(o) == Len(o.itineraries) >= 1 /\ Len(o.itineraries[1].segments) = 0

\* Stop-overs of a well-formed offer: outbound segments minus one.
StopsOf(o) == Len(o.itineraries[1].segments) - 1

AllWellFormed(offers) == \A k \in 1..Len(offers) : WellFormed(offers[k])

\* Every offer of the response is a well-formed non-stop one: what the
\* non-stop query asks for.
AllNonStop(offers) ==
    \A k \in 1..Len(offers) : WellFormed(offers[k]) /\ StopsOf(offers[k]) = 0

\* The non-stop query of destination i has returned at least one offer.
NonStopAnswered == Len(resps) >= 1 /\ resps[1] # <<>>

\* C1: if the non-stop query returns at least one offer, the unrestricted
\* query is never issued and search_cheapest_flight returns a non-stop offer of
\* that response (the cheapest one); the unrestricted query is started only
\* after the non-stop query has returned no offer.
C1_NonStopPrecedence ==
    /\ NonStopAnswered =>
          /\ Len(resps) = 1
          /\ call = "nonstop"
          /\ reqSent = 1
          /\ found # <<>>
          /\ AllNonStop(resps[1]) =>
                /\ found[1].exc = ""
                /\ found[1].ret # <<>>
                /\ \E k \in 1..Len(resps[1]) :
                      /\ found[1].ret[1] = FromAmadeusOffer(resps[1][k])
                      /\ \A j \in 1..Len(resps[1]) :
                            resps[1][k].price.total <= resps[1][j].price.total
                /\ found[1].ret[1].stops = 0
                /\ found[1].ret[1].is_direct
    /\ call = "any" => (Len(resps) >= 1 /\ resps[1] = <<>>)

\* The non-stop query returned offers, search_cheapest_flight returned one of
\* them, and one request was sent for the destination.
C1_Witness ==
    /\ pc \in {"handled", "sms"}
    /\ NonStopAnswered
    /\ AllNonStop(resps[1])
    /\ found # <<>>
    /\ found[1].ret # <<>>
    /\ call = "nonstop"

\* The offers of the response with at most 2 stops.
WithinCeiling(offers) == {k \in 1..Len(offers) : StopsOf(offers[k]) <= 2}

\* C2: when the non-stop query returns no offer, search_cheapest_flight
\* returns an offer of the unrestricted query (capped at 20) that has at most 2
\* stops and the least price among the returned offers with at most 2 stops,
\* never one with 3 or more stops, and no offer exactly when no returned offer
\* has at most 2 stops.
C2_IndirectFallback ==
    (Len(resps) = 2 /\ AllWellFormed(resps[2])) =>
        LET offers == resps[2]
        IN  /\ resps[1] = <<>>
            /\ QueryParams(call).max = 20
            /\ Len(offers) <= QueryParams(call).max
            /\ found # <<>>
            /\ found[1].exc = ""
            /\ found[1].ret = <<>> <=> WithinCeiling(offers) = {}
            /\ found[1].ret # <<>> =>
                  /\ found[1].ret[1].stops <= 2
                  /\ \E k \in WithinCeiling(offers) :
                        /\ found[1].ret[1] = FromAmadeusOffer(offers[k])
                        /\ \A j \in WithinCeiling(offers) :
                              offers[k].price.total <= offers[j].price.total

\* The unrestricted query returned a 3-stop offer cheaper than the offer
\* search_cheapest_flight returned.
C2_Witness ==
    /\ Len(resps) = 2
    /\ AllWellFormed(resps[2])
    /\ found # <<>>
    /\ found[1].ret # <<>>
    /\ \E k \in 1..Len(resps[2]) :
          /\ StopsOf(resps[2][k]) >= 3
          /\ resps[2][k].price.total < found[1].ret[1].price

\* C3: a per-item error while handling one destination (transport error of
\* the search, malformed payload, SMS failure, mail failure) is fatal for that
\* destination only: the batch does not end with it, and every later
\* destination is searched.
C3_BatchContinuation ==
    pc \in {"done", "raised"} =>
        \A k \in erred : \A j \in (k + 1)..Len(dests) : j \in searched

\* C4: send_deal_alert attempts the SMS before the email, and both channels
\* are attempted even if one fails: once it has ended for a notifier that has
\* mail credentials and recipients, the SMS and then the email were attempted.
C4_BothChannelsAttempted ==
    (alertEnded /\ notifier[1].email_ready /\ notifier[1].customer_emails # <<>>) =>
        attempts = <<"sms", "email">>

\* C10: normalising an offer whose outbound itinerary has no segment raises
\* the malformed-payload error, and a response holding such an offer makes
\* search_cheapest_flight raise: no flight is returned, and the error is the
\* malformed-payload one unless an earlier offer of the response has no
\* itinerary at all.
C10_MalformedOffer ==
    /\ \A o \in OfferPool : ZeroSegments(o) => FromAmadeusOfferRaises(o) = "ValueError"
    /\ \A n \in 1..Len(resps) :
          (\E k \in 1..Len(resps[n]) : ZeroSegments(resps[n][k])) =>
              /\ n = Len(resps)
              /\ found # <<>>
              /\ found[1].ret = <<>>
              /\ found[1].exc \in {"ValueError", "IndexError"}
              /\ (\A k \in 1..Len(resps[n]) :
                     WellFormed(resps[n][k]) \/ ZeroSegments(resps[n][k]))
                 => found[1].exc = "ValueError"
              /\ pc = "raised"
              /\ raised = found[1].exc

\* A response held a well-formed offer and then one without outbound segments,
\* and the malformed-payload error left the search.
C10_Witness ==
    /\ pc = "raised"
    /\ raised = "ValueError"
    /\ Len(resps) >= 1
    /\ Len(Last(resps)) = 2
    /\ WellFormed(Last(resps)[1])
    /\ ZeroSegments(Last(resps)[2])

\* The rows an update request was sent for.
PutRows == {p.row : p \in puts}

\* C8: a lookup or persistence failure on one row does not stop the loop: it
\* goes on with the next row, which is processed, and an exception that ends
\* the run is never that of a failed row; the returned count is the number of
\* rows whose update was persisted, and only those rows changed in memory,
\* each to the code that was written.
C8_BackfillIsolation ==
    /\ \A k \in failed : rowNo > k
    /\ pc \in {"done", "raised"} =>
          \A k \in failed : k < Len(rows) => (k + 1) \in processed
    /\ pc = "raised" => rowNo \notin failed
    /\ pc = "done" => (updated = Cardinality(persisted) /\ processed = 1..Len(rows))
    /\ \A k \in 1..Len(rows) :
          /\ rows[k] # rowsIn[k] => k \in persisted
          /\ k \in persisted =>
                \E p \in puts : p.row = k /\ rows[k].iataCode = p.iataCode

\* Three rows lacking a code, the lookup of the second failed, the first and
\* third were updated and the count returned is 2.
C8_Witness ==
    /\ pc = "done"
    /\ Len(rows) = 3
    /\ lookups = {1, 2, 3}
    /\ failed = {2}
    /\ 2 \notin PutRows
    /\ persisted = {1, 3}
    /\ updated = 2

\* The id cannot name a row: it is missing, empty, zero or
\* non-numeric.
Unresolvable(id) ==
    \/ id.kind = "none"
    \/ id.kind = "str" /\ id.str = ""
    \/ id.kind = "int" /\ id.num = 0
    \/ id.kind = "str" /\ id.str \notin {"0", "1", "2", "3", "4", "5", "6", "7", "8", "9"}

\* C9: a row that already has a code causes no lookup and no update request;
\* a row without a resolvable id (missing, empty, zero or non-numeric) or
\* without a city is skipped without an error, a lookup or an update request.
C9_BackfillSkipping ==
    \A k \in processed :
        /\ (rowsIn[k].iataCode \notin {"", " "}) => (k \notin lookups /\ k \notin PutRows)
        /\ (Unresolvable(rowsIn[k].id) \/ rowsIn[k].city \in {"", " "}) =>
              /\ k \notin lookups
              /\ k \notin PutRows
              /\ ~(pc = "raised" /\ rowNo = k)

\* A requested action lacks the credentials it needs.
MissingCredentials ==
    \/ (args.sync_iata \/ args.search) /\ ~(env.amadeus_api_key /\ env.amadeus_api_secret)
    \/ args.notify /\ ~env.twilio

\* C5: in a command line run where a requested action lacks its credentials,
\* no request is sent and the run ends with the configuration error reported.
C5_ConfigErrorsFirst ==
    MissingCredentials =>
        /\ netCalls = <<>>
        /\ pc \in {"exit", "raised"} => exitKind = "config_error"

\* The code an airport object is named by: its city code, else its airport
\* code, else nothing.
CodeOf(stop) ==
    IF stop.cityCode # "" THEN <<stop.cityCode>>
    ELSE IF stop.iataCode # "" THEN <<stop.iataCode>>
    ELSE <<>>

\* C11: an offer whose outbound itinerary has n >= 1 segments is normalised
\* to stops = n - 1 and is_direct = (stops = 0); with stops > 0 via_city is
\* the city code, else the airport code, of the first outbound segment's
\* arrival, and with stops = 0 via_city is absent.
C11_StopsAndVia ==
    (pc # "offer" /\ Len(offerIn.itineraries) >= 1
        /\ Len(offerIn.itineraries[1].segments) >= 1) =>
        /\ pc = "normalised"
        /\ Len(flightOut) = 1
        /\ flightOut[1].stops = Len(offerIn.itineraries[1].segments) - 1
        /\ flightOut[1].is_direct = (flightOut[1].stops = 0)
        /\ flightOut[1].stops > 0 =>
              flightOut[1].via_city = CodeOf(offerIn.itineraries[1].segments[1].arrival)
        /\ flightOut[1].stops = 0 => flightOut[1].via_city = <<>>

\* One itinerary with two segments: one stop, not direct, via the first
\* segment's arrival.
C11_Witness ==
    /\ pc = "normalised"
    /\ offerIn.itineraries = <<Leg2>>
    /\ flightOut[1].stops = 1
    /\ ~flightOut[1].is_direct
    /\ flightOut[1].via_city = <<"LON">>

\* C12: the first itinerary is the outbound leg and the last one the inbound
\* leg; origin is the departure of the outbound leg's first segment,
\* destination the arrival of its last segment, the outbound date that of the
\* first departure and the return date that of the inbound leg's last
\* arrival (the outbound leg's when the inbound leg has no segment).
C12_LegsAndEndpoints ==
    pc = "normalised" =>
        LET itins == offerIn.itineraries
            out == itins[1].segments
            back == Last(itins).segments
            f == flightOut[1]
        IN  /\ f.origin_airport = out[1].departure.iataCode
            /\ <<f.origin_city>> = IF CodeOf(out[1].departure) = <<>> THEN <<"">>
                                   ELSE CodeOf(out[1].departure)
            /\ f.destination_airport = out[Len(out)].arrival.iataCode
            /\ <<f.destination_city>> = IF CodeOf(out[Len(out)].arrival) = <<>> THEN <<"">>
                                        ELSE CodeOf(out[Len(out)].arrival)
            /\ f.out_date = out[1].departure.at[1]
            /\ f.return_date = IF Len(back) > 0 THEN back[Len(back)].arrival.at[1]
                               ELSE out[Len(out)].arrival.at[1]

\* Three itineraries, the outbound one with several segments whose first
\* arrival is not the destination, and a return date only the last itinerary
\* gives.
C12_Witness ==
    /\ pc = "normalised"
    /\ offerIn.itineraries = <<Leg3, Leg1, LegBack>>
    /\ flightOut[1].origin_airport = "CDG"
    /\ flightOut[1].destination_airport = "JFK"
    /\ flightOut[1].destination_city = "NYC"
    /\ flightOut[1].return_date = "d9"

\* The address lists a users sheet may give: a blank and 0..MaxEmails addresses.
AddressLists == {[k \in 1..(n + 1) |-> k - 1] : n \in 0..MaxEmails}

\* C13: when an alert is dispatched through the notifier a command line run
\* builds after loading customer addresses, with mail sender credentials
\* configured, one message goes to every non-blank address and emails_sent is
\* their number.
C13_EmailFanOut ==
    \A emails \in AddressLists :
        (notifier = <<MainNotifier(emails, TRUE)>> /\ alert # <<>>) =>
            /\ alert[1].emails_sent = Len(NonBlank(emails))
            /\ mailsSent = Len(NonBlank(emails))

\* The pieces of a text.
Pieces(text) == {text[k] : k \in 1..Len(text)}

\* C14: the text composed for an alert holds the offer price and the target
\* price; it holds a stop clause exactly when the offer has stops, the clause
\* is then the end of the text and names the via city when one is set, and a
\* text without the clause ends with the return date.
C14_DealAlertText ==
    body # <<>> =>
        LET f == found[1].ret[1]
            n == Len(body)
        IN  /\ Money(f.price) \in Pieces(body)
            /\ Money(dests[i].lowest_price) \in Pieces(body)
            /\ (" escale(s)" \in Pieces(body)) <=> (f.stops > 0)
            /\ f.stops > 0 =>
                  IF f.via_city # <<>>
                  THEN SubSeq(body, n - 5, n) =
                          <<" ", Count(f.stops), " escale(s)", " via ", f.via_city[1], ".">>
                  ELSE SubSeq(body, n - 3, n) = <<" ", Count(f.stops), " escale(s)", ".">>
            /\ f.stops = 0 => SubSeq(body, n - 1, n) = <<f.return_date, ".">>

\* An alert for an offer with one stop via LON: the text ends with the clause
\* naming it.
C14_Witness ==
    /\ body # <<>>
    /\ found[1].ret[1].stops = 1
    /\ found[1].ret[1].via_city = <<"LON">>
    /\ SubSeq(body, Len(body) - 2, Len(body)) = <<" via ", "LON", ".">>

\* C15: a send is attempted for a destination only with a notifier, a search
\* that returned an offer and a price at or below the destination's target;
\* the SMS is attempted at most once and the email at most once, after it, and
\* no message reaches the mail relay otherwise.
C15_AlertsOnlyForDeals ==
    /\ attempts \in {<<>>, <<"sms">>, <<"sms", "email">>}
    /\ (attempts # <<>> \/ mailsSent > 0 \/ alert # <<>> \/ body # <<>>) =>
          /\ notifier # <<>>
          /\ found # <<>>
          /\ found[1].exc = ""
          /\ found[1].ret # <<>>
          /\ found[1].ret[1].price <= dests[i].lowest_price
          /\ attempts # <<>>

\* A destination handled with a notifier and an offer above its target, and
\* no send attempted.
C15_Witness ==
    /\ pc = "handled"
    /\ notifier # <<>>
    /\ found # <<>>
    /\ found[1].ret # <<>>
    /\ found[1].ret[1].price > dests[i].lowest_price
    /\ attempts = <<>>

\* C16: every flight search_cheapest_flight returns has at most MAX_STOPS
\* stops, and one returned from the non-stop phase has none and is direct.
C16_StopCeiling ==
    (found # <<>> /\ found[1].ret # <<>>) =>
        /\ found[1].ret[1].stops <= MAX_STOPS
        /\ Len(resps) = 1 => (found[1].ret[1].stops = 0 /\ found[1].ret[1].is_direct)

====
